---- MODULE Spec2Model ----
(***************************************************************************)
(* A model of genanki-rs src/model.rs: the Model builder, the requirement  *)
(* computation req() and the serialization to_model_db_entry(), together   *)
(* with the card expansion of a Note bound to a Model.                     *)
(***************************************************************************)
EXTENDS Integers, Sequences, FiniteSets, TLC

VARIABLES
    model,           \* the Model (struct Model, model.rs:28-38)
    unsetOrd,        \* the ord a Fld / Tmpl has when converted from a Field / Template
    givenFields,     \* the Fields given to the constructor and to with_field, in order
    givenTemplates,  \* the Templates given to the constructor and to with_template
    call,            \* Some(arguments) when the last call was to_model_db_entry
    ret,             \* Some(result) when the last call was to_model_db_entry
    note,            \* Some(result of Note::new), or None
    cards            \* Some(result of Note::cards), or None

vars == <<model, unsetOrd, givenFields, givenTemplates, call, ret, note, cards>>

----------------------------------------------------------------------------
(* Bounds of the model. *)

MaxFields == 2
MaxTemplates == 2
MaxCloze == 4
MaxPieces == 2

----------------------------------------------------------------------------
(* Option<T> and Result<T, Error>. *)

None == <<>>
Some(x) == <<x>>
UnwrapOr(o, d) == IF o = None THEN d ELSE o[1]
Ok(v) == [ok |-> TRUE, val |-> v]
Err(e) == [ok |-> FALSE, err |-> e]

SeqsUpTo(S, n) == UNION {[1..k -> S] : k \in 0..n}

----------------------------------------------------------------------------
(* Values the callers pass in. *)

DEFAULT_LATEX_PRE == "\n\\documentclass[12pt]{article}\n\\special{papersize=3in,5in}\n\\usepackage[utf8]{inputenc}\n\\usepackage{amssymb,amsmath}\n\\pagestyle{empty}\n\\setlength{\\parindent}{0in}\n\\begin{document}\n\n"
DEFAULT_LATEX_POST == "\\end{document}"

FrontBack == "FrontBack"
Cloze == "Cloze"
ModelType == {FrontBack, Cloze}

Ids == {12345, -10}
Names == {"Simple Model", "Cloze Model"}
CssValues == {"", ".card { font-family: arial; }"}
LatexPreValues == {"", DEFAULT_LATEX_PRE}
LatexPostValues == {"", DEFAULT_LATEX_POST}
SortFieldIndices == {0, 1}
DeckIds == {1, 2}
FieldInputs == {[name |-> "Question"], [name |-> "Answer"]}
TemplateInputs ==
    { [name |-> "Card 1", qfmt |-> "{{Question}}",
       afmt |-> "{{FrontSide}}<hr id=\"answer\">{{Answer}}"],
      [name |-> "My Cloze Card", qfmt |-> "{{Text}}",
       afmt |-> "{{Text}}<br>{{Extra}}"] }

(* An f64 timestamp: NaN, or a number of halves (-1.5 is halves = -3). *)
Timestamps == {[nan |-> FALSE, halves |-> -3]}

(* The ord a Fld / Tmpl carries before any serialization has numbered it. *)
UnsetOrds == {0, 7}

----------------------------------------------------------------------------
(* Conversions. *)

FieldInto(f, o) == [name |-> f.name, ord |-> o]
TemplateInto(t, o) == [name |-> t.name, qfmt |-> t.qfmt, afmt |-> t.afmt, ord |-> o]

MapFieldsInto(fs, o) == [i \in 1..Len(fs) |-> FieldInto(fs[i], o)]
MapTemplatesInto(ts, o) == [i \in 1..Len(ts) |-> TemplateInto(ts[i], o)]

DigitChar(d) == <<"0", "1", "2", "3", "4", "5", "6", "7", "8", "9">>[d + 1]

RECURSIVE NatToString(_)
NatToString(n) ==
    IF n < 10 THEN <<DigitChar(n)>>
    ELSE NatToString(n \div 10) \o <<DigitChar(n % 10)>>

(* Mutant: the sign is lost. *)
I64ToStringNoSign(n) == IF n < 0 THEN NatToString(-n) ELSE NatToString(n)

(* i64::to_string: the decimal digits, with a leading "-" below zero. *)
I64ToString(n) == IF n < 0 THEN <<"-">> \o NatToString(-n) ELSE NatToString(n)

(* `timestamp as i64`: truncation toward zero, NaN becomes 0. *)
F64AsI64(ts) ==
    IF ts.nan THEN 0
    ELSE IF ts.halves >= 0 THEN ts.halves \div 2 ELSE -((-ts.halves) \div 2)

----------------------------------------------------------------------------
(* Constructors and builder setters. *)

New(id, name, fields, templates, o) ==
    [ id |-> id,
      name |-> name,
      fields |-> MapFieldsInto(fields, o),
      templates |-> MapTemplatesInto(templates, o),
      css |-> "",
      model_type |-> FrontBack,
      latex_pre |-> DEFAULT_LATEX_PRE,
      latex_post |-> DEFAULT_LATEX_POST,
      sort_field_index |-> 0 ]

(* Mutant: the type falls back to Cloze. *)
NewWithOptionsCloze(id, name, fields, templates, css, model_type, latex_pre, latex_post, sort_field_index, o) ==
    [ id |-> id,
      name |-> name,
      fields |-> MapFieldsInto(fields, o),
      templates |-> MapTemplatesInto(templates, o),
      css |-> UnwrapOr(css, ""),
      model_type |-> UnwrapOr(model_type, Cloze),
      latex_pre |-> UnwrapOr(latex_pre, DEFAULT_LATEX_PRE),
      latex_post |-> UnwrapOr(latex_post, DEFAULT_LATEX_POST),
      sort_field_index |-> UnwrapOr(sort_field_index, 0) ]

NewWithOptions(id, name, fields, templates, css, model_type, latex_pre, latex_post, sort_field_index, o) ==
    [ id |-> id,
      name |-> name,
      fields |-> MapFieldsInto(fields, o),
      templates |-> MapTemplatesInto(templates, o),
      css |-> UnwrapOr(css, ""),
      model_type |-> UnwrapOr(model_type, FrontBack),
      latex_pre |-> UnwrapOr(latex_pre, DEFAULT_LATEX_PRE),
      latex_post |-> UnwrapOr(latex_post, DEFAULT_LATEX_POST),
      sort_field_index |-> UnwrapOr(sort_field_index, 0) ]

(* Mutant: the field is inserted in front. *)
PushFieldFront(m, field, o) == [m EXCEPT !.fields = <<FieldInto(field, o)>> \o @]

PushField(m, field, o) == [m EXCEPT !.fields = Append(@, FieldInto(field, o))]
PushTemplate(m, template, o) ==
    [m EXCEPT !.templates = Append(@, TemplateInto(template, o))]
SetCss(m, css) == [m EXCEPT !.css = css]
SetModelType(m, model_type) == [m EXCEPT !.model_type = model_type]
SetLatexPre(m, latex_pre) == [m EXCEPT !.latex_pre = latex_pre]
SetLatexPost(m, latex_post) == [m EXCEPT !.latex_post = latex_post]
SetSortFieldIndex(m, sort_field_index) ==
    [m EXCEPT !.sort_field_index = sort_field_index]

----------------------------------------------------------------------------
(* req(): one entry per template. *)

(* Mutant: the range 0..=n. *)
RECURSIVE RangeUpToInclusive(_)
RangeUpToInclusive(n) ==
    IF n = 0 THEN <<0>> ELSE Append(RangeUpToInclusive(n - 1), n)

RECURSIVE RangeUpTo(_)
RangeUpTo(n) == IF n = 0 THEN <<>> ELSE Append(RangeUpTo(n - 1), n - 1)

RECURSIVE ReqLoop(_, _, _)
ReqLoop(template_ord, n_templates, n_field_values) ==
    IF template_ord >= n_templates THEN <<>>
    ELSE <<[ord |-> template_ord, kind |-> "all",
            fields |-> RangeUpTo(n_field_values)]>>
         \o ReqLoop(template_ord + 1, n_templates, n_field_values)

(* Mutant: a Cloze Model has no requirements. *)
ReqClozeEmpty(m) ==
    IF m.model_type = Cloze THEN Ok(<<>>)
    ELSE Ok(ReqLoop(0, Len(m.templates), Len(m.fields)))

Req(m) ==
    LET field_names == [i \in 1..Len(m.fields) |-> m.fields[i].name]
        field_values == [i \in 1..Len(field_names) |->
                            <<field_names[i], field_names[i], "SeNtInEl">>]
    IN Ok(ReqLoop(0, Len(m.templates), Len(field_values)))

----------------------------------------------------------------------------
(* to_model_db_entry(): renumber, then project the Model into an entry. *)

RenumberTemplates(templates) ==
    [i \in 1..Len(templates) |-> [templates[i] EXCEPT !.ord = i - 1]]
(* Mutant: the position is added to the ord. *)
RenumberFieldsAdd(fields) ==
    [i \in 1..Len(fields) |-> [fields[i] EXCEPT !.ord = @ + i - 1]]

RenumberFields(fields) ==
    [i \in 1..Len(fields) |-> [fields[i] EXCEPT !.ord = i - 1]]

(* Mutant: the sort field is reset as well. *)
RenumberedResetSort(m) ==
    [m EXCEPT !.templates = RenumberTemplates(@), !.fields = RenumberFields(@),
              !.sort_field_index = 0]

Renumbered(m) ==
    [m EXCEPT !.templates = RenumberTemplates(@), !.fields = RenumberFields(@)]

ModelTypeFlag(model_type) == IF model_type = FrontBack THEN 0 ELSE 1

(* The Model is the renumbered one (self after lines 181-189). *)
ModelDbEntryOf(m, timestamp, deck_id) ==
    LET req == Req(m)
    IN IF ~req.ok THEN req
       ELSE Ok([ vers |-> <<>>,
                 name |-> m.name,
                 tags |-> <<>>,
                 did |-> deck_id,
                 usn |-> -1,
                 req |-> req.val,
                 flds |-> m.fields,
                 sortf |-> m.sort_field_index,
                 tmpls |-> m.templates,
                 model_db_entry_mod |-> F64AsI64(timestamp),
                 latex_post |-> m.latex_post,
                 model_db_entry_type |-> ModelTypeFlag(m.model_type),
                 id |-> I64ToString(m.id),
                 css |-> m.css,
                 latex_pre |-> m.latex_pre ])

----------------------------------------------------------------------------
(* Field values of a Note: texts made of lexemes, "{{c" N "::" text "}}"   *)
(* being a cloze marker.                                                   *)

Marker(n) == <<"{{c", DigitChar(n), "::", "x", "}}">>
Unmarked(n) == <<"{{c", DigitChar(n), "x", "}}">>
Pieces == {<<"x">>, Unmarked(1)} \cup {Marker(n) : n \in 1..MaxCloze}

RECURSIVE Concat(_)
Concat(ps) == IF ps = <<>> THEN <<>> ELSE Head(ps) \o Concat(Tail(ps))

Texts == {Concat(ps) : ps \in SeqsUpTo(Pieces, MaxPieces)}

IsDigit(tok) == \E d \in 0..9 : DigitChar(d) = tok
DigitValue(tok) == CHOOSE d \in 0..9 : DigitChar(d) = tok

(* The cloze indices N of the markers {{cN::...}} in a text, scanning from i. *)
RECURSIVE ClozeIndices(_, _)
ClozeIndices(text, i) ==
    IF i > Len(text) THEN {}
    ELSE LET closes == {j \in (i + 4)..Len(text) : text[j] = "}}"}
         IN IF /\ text[i] = "{{c"
               /\ i + 2 <= Len(text)
               /\ IsDigit(text[i + 1])
               /\ text[i + 2] = "::"
               /\ closes # {}
            THEN LET j == CHOOSE k \in closes : \A l \in closes : k <= l
                 IN {DigitValue(text[i + 1])} \cup ClozeIndices(text, j + 1)
            ELSE ClozeIndices(text, i + 1)

Fields(m) == m.fields
Templates(m) == m.templates
GetModelType(m) == m.model_type

(* Note::new: the number of field values must be the Model's field count. *)
NoteNew(m, field_values) ==
    IF Len(field_values) # Len(Fields(m)) THEN Err("InvalidFieldCount")
    ELSE Ok([model |-> m, fields |-> field_values])

RECURSIVE SortedSeq(_)
SortedSeq(S) ==
    IF S = {} THEN <<>>
    ELSE LET lo == CHOOSE x \in S : \A y \in S : x <= y
         IN <<lo>> \o SortedSeq(S \ {lo})

(* Mutant: only the first field value is scanned. *)
ClozeOrdsFirstField(field_values) ==
    LET ords == {n - 1 : n \in ClozeIndices(field_values[1], 1)}
    IN IF ords = {} THEN {0} ELSE ords

ClozeOrds(field_values) ==
    LET found == UNION {ClozeIndices(field_values[k], 1) : k \in 1..Len(field_values)}
        ords == {n - 1 : n \in found}
    IN IF ords = {} THEN {0} ELSE ords

RECURSIVE ClozeCards(_, _)
ClozeCards(n_templates, ords) ==
    IF n_templates = 0 THEN <<>>
    ELSE ClozeCards(n_templates - 1, ords) \o [i \in 1..Len(ords) |-> [ord |-> ords[i]]]

(* Note::cards: one Card per template, or per cloze index and template. *)
Cards(n) ==
    IF GetModelType(n.model) = FrontBack
    THEN [i \in 1..Len(Templates(n.model)) |-> [ord |-> i - 1]]
    ELSE ClozeCards(Len(Templates(n.model)), SortedSeq(ClozeOrds(n.fields)))

----------------------------------------------------------------------------
(* The builder as a state machine. *)

NoNote == None

InitNew ==
    \E id \in Ids, name \in Names, fields \in SeqsUpTo(FieldInputs, MaxFields),
       templates \in SeqsUpTo(TemplateInputs, MaxTemplates), o \in UnsetOrds :
        /\ model = New(id, name, fields, templates, o)
        /\ unsetOrd = o
        /\ givenFields = fields
        /\ givenTemplates = templates

InitNewWithOptions ==
    \E id \in Ids, name \in Names, fields \in SeqsUpTo(FieldInputs, MaxFields),
       templates \in SeqsUpTo(TemplateInputs, MaxTemplates), o \in UnsetOrds,
       css \in {None} \cup {Some(c) : c \in CssValues},
       model_type \in {None} \cup {Some(t) : t \in ModelType},
       latex_pre \in {None} \cup {Some(l) : l \in LatexPreValues},
       latex_post \in {None} \cup {Some(l) : l \in LatexPostValues},
       sort_field_index \in {None} \cup {Some(s) : s \in SortFieldIndices} :
        /\ model = NewWithOptions(id, name, fields, templates, css, model_type,
                                  latex_pre, latex_post, sort_field_index, o)
        /\ unsetOrd = o
        /\ givenFields = fields
        /\ givenTemplates = templates

Init ==
    /\ InitNew \/ InitNewWithOptions
    /\ call = None
    /\ ret = None
    /\ note = NoNote
    /\ cards = None

Builder(m) ==
    /\ model' = m
    /\ call' = None
    /\ ret' = None
    /\ UNCHANGED <<unsetOrd, note, cards>>

WithField ==
    \E field \in FieldInputs :
        /\ Len(model.fields) < MaxFields
        /\ Builder(PushField(model, field, unsetOrd))
        /\ givenFields' = Append(givenFields, field)
        /\ UNCHANGED givenTemplates

WithTemplate ==
    \E template \in TemplateInputs :
        /\ Len(model.templates) < MaxTemplates
        /\ Builder(PushTemplate(model, template, unsetOrd))
        /\ givenTemplates' = Append(givenTemplates, template)
        /\ UNCHANGED givenFields

CssSetter ==
    \E css \in CssValues :
        Builder(SetCss(model, css)) /\ UNCHANGED <<givenFields, givenTemplates>>

ModelTypeSetter ==
    \E model_type \in ModelType :
        Builder(SetModelType(model, model_type))
        /\ UNCHANGED <<givenFields, givenTemplates>>

LatexPreSetter ==
    \E latex_pre \in LatexPreValues :
        Builder(SetLatexPre(model, latex_pre))
        /\ UNCHANGED <<givenFields, givenTemplates>>

LatexPostSetter ==
    \E latex_post \in LatexPostValues :
        Builder(SetLatexPost(model, latex_post))
        /\ UNCHANGED <<givenFields, givenTemplates>>

SortFieldIndexSetter ==
    \E sort_field_index \in SortFieldIndices :
        Builder(SetSortFieldIndex(model, sort_field_index))
        /\ UNCHANGED <<givenFields, givenTemplates>>

ToModelDbEntry ==
    \E timestamp \in Timestamps, deck_id \in DeckIds :
        /\ model' = Renumbered(model)
        /\ call' = Some([timestamp |-> timestamp, deck_id |-> deck_id])
        /\ ret' = Some(ModelDbEntryOf(model', timestamp, deck_id))
        /\ UNCHANGED <<unsetOrd, givenFields, givenTemplates, note, cards>>

Next ==
    \/ WithField
    \/ WithTemplate
    \/ CssSetter
    \/ ModelTypeSetter
    \/ LatexPreSetter
    \/ LatexPostSetter
    \/ SortFieldIndexSetter
    \/ ToModelDbEntry

Spec == Init /\ [][Next]_vars

----------------------------------------------------------------------------
(* A Note bound to a Model, and its expansion into cards. *)

multi_field_cloze_model ==
    NewWithOptions(1047194615, "Multi Field Cloze Model",
                   <<[name |-> "Text1"], [name |-> "Text2"]>>,
                   <<[name |-> "Cloze",
                      qfmt |-> "{{cloze:Text1}} and {{cloze:Text2}}",
                      afmt |-> "{{cloze:Text1}} and {{cloze:Text2}}"]>>,
                   Some(".card { font-family: arial; }"), Some(Cloze),
                   None, None, None, 0)

NoteModels ==
    { multi_field_cloze_model,
      PushTemplate(SetModelType(multi_field_cloze_model, FrontBack),
                   [name |-> "Card 1", qfmt |-> "{{Text1}}", afmt |-> "{{Text2}}"], 0) }

InitNote ==
    /\ model \in NoteModels
    /\ unsetOrd = 0
    /\ givenFields = [i \in 1..Len(model.fields) |-> [name |-> model.fields[i].name]]
    /\ givenTemplates = [i \in 1..Len(model.templates) |->
                            [name |-> model.templates[i].name,
                             qfmt |-> model.templates[i].qfmt,
                             afmt |-> model.templates[i].afmt]]
    /\ call = None
    /\ ret = None
    /\ note = NoNote
    /\ cards = None

NoteNewCall ==
    /\ note = NoNote
    /\ \E n \in 1..2 : \E field_values \in [1..n -> Texts] :
          note' = Some(NoteNew(model, field_values))
    /\ UNCHANGED <<model, unsetOrd, givenFields, givenTemplates, call, ret, cards>>

NoteCards ==
    /\ note # NoNote
    /\ note[1].ok
    /\ cards' = Some(Cards(note[1].val))
    /\ UNCHANGED <<model, unsetOrd, givenFields, givenTemplates, call, ret, note>>

NextNote == NoteNewCall \/ NoteCards

SpecNote == InitNote /\ [][NextNote]_vars

----------------------------------------------------------------------------
(* Properties. *)

Entry == ret[1].val
Serialized == ret # None

ReqAll(T, F) ==
    [i \in 1..T |-> [ord |-> i - 1, kind |-> "all", fields |-> [j \in 1..F |-> j - 1]]]

(* C1: req() of a FrontBack Model with F fields and T templates succeeds   *)
(* with exactly T entries; entry i has ord i, kind "all" and the field     *)
(* indices 0..F-1 in ascending order.                                      *)
C1_ReqFrontBack ==
    model.model_type = FrontBack =>
        /\ Req(model) = Ok(ReqAll(Len(model.templates), Len(model.fields)))
        /\ Serialized =>
             /\ ret[1].ok
             /\ Len(Entry.req) = Len(model.templates)
             /\ \A i \in 1..Len(Entry.req) :
                  /\ Entry.req[i].ord = i - 1
                  /\ Entry.req[i].kind = "all"
                  /\ Entry.req[i].fields = [j \in 1..Len(model.fields) |-> j - 1]

C1_Witness ==
    /\ model.model_type = FrontBack
    /\ Serialized
    /\ Len(Entry.req) = 2
    /\ Entry.req[2].fields = <<0, 1>>

Ords(xs) == [i \in 1..Len(xs) |-> xs[i].ord]

(* C2: a second to_model_db_entry directly after a first one returns the   *)
(* same ord for every field and template and leaves the Model as the       *)
(* first call left it.                                                     *)
C2_RenumberIdempotent ==
    [][(Serialized /\ ToModelDbEntry) =>
          /\ model' = model
          /\ Ords(ret'[1].val.flds) = Ords(Entry.flds)
          /\ Ords(ret'[1].val.tmpls) = Ords(Entry.tmpls)]_vars

C2_Witness ==
    /\ Serialized
    /\ call[1].deck_id = 2
    /\ Ords(Entry.flds) = <<0, 1>>
    /\ Ords(Entry.tmpls) = <<0, 1>>
    /\ unsetOrd = 7

(* C3: the latest entry lists the fields, and the templates, in creation   *)
(* order followed by append order, and the element at position i has       *)
(* ord = i, so the ords are exactly 0..n-1.                                *)
C3_OrderAndOrds ==
    Serialized =>
        /\ Len(Entry.flds) = Len(givenFields)
        /\ \A i \in 1..Len(givenFields) :
             Entry.flds[i].name = givenFields[i].name /\ Entry.flds[i].ord = i - 1
        /\ Len(Entry.tmpls) = Len(givenTemplates)
        /\ \A i \in 1..Len(givenTemplates) :
             /\ Entry.tmpls[i].name = givenTemplates[i].name
             /\ Entry.tmpls[i].qfmt = givenTemplates[i].qfmt
             /\ Entry.tmpls[i].afmt = givenTemplates[i].afmt
             /\ Entry.tmpls[i].ord = i - 1
        /\ {Entry.flds[i].ord : i \in 1..Len(Entry.flds)} = 0..(Len(Entry.flds) - 1)
        /\ {Entry.tmpls[i].ord : i \in 1..Len(Entry.tmpls)} = 0..(Len(Entry.tmpls) - 1)

C3_Witness ==
    /\ Serialized
    /\ Len(Entry.flds) = 2
    /\ Entry.flds[1].name = "Answer"
    /\ Entry.flds[2].name = "Question"
    /\ Len(Entry.tmpls) = 2
    /\ Entry.tmpls[1].name # Entry.tmpls[2].name

(* C4: sort_field_index is a valid index into the fields, in every Model   *)
(* and in every entry: 0 <= sort_field_index < number of fields.           *)
C4_SortFieldIndexValid ==
    /\ 0 <= model.sort_field_index
    /\ model.sort_field_index < Len(model.fields)
    /\ Serialized => (0 <= Entry.sortf /\ Entry.sortf < Len(Entry.flds))

(* C5: a Model with zero templates is rejected with EmptyTemplateSet at     *)
(* the latest by to_model_db_entry; no entry is produced for it.           *)
C5_EmptyTemplateSetRejected ==
    (Serialized /\ Len(model.templates) = 0) =>
        (~ret[1].ok /\ ret[1].err = "EmptyTemplateSet")

(* The cloze indices of a text, stated position by position. *)
MarkerIndices(text) ==
    {n \in 1..9 : \E i \in 1..Len(text) :
        /\ i + 2 <= Len(text)
        /\ SubSeq(text, i, i + 2) = <<"{{c", DigitChar(n), "::">>
        /\ \E j \in (i + 4)..Len(text) : text[j] = "}}"}

NoteMarkerOrds ==
    {n - 1 : n \in UNION {MarkerIndices(note[1].val.fields[k]) :
                             k \in 1..Len(note[1].val.fields)}}

CardOrds == {cards[1][i].ord : i \in 1..Len(cards[1])}

ClozeOneTemplate ==
    /\ cards # None
    /\ note[1].val.model.model_type = Cloze
    /\ Len(note[1].val.model.templates) = 1

(* C6 as stated: for a Note of a one-template Cloze Model the set of card  *)
(* ordinals is { N-1 : N a cloze index in any field value }.               *)
C6_ClozeOrdsOriginal == ClozeOneTemplate => CardOrds = NoteMarkerOrds

(* C6: for a Note of a one-template Cloze Model, the card ordinals are     *)
(* { N-1 : N a cloze index in any field value }, each once, when some      *)
(* marker occurs; when none occurs there is one card, of ordinal 0.        *)
C6_ClozeOrdsAmended ==
    ClozeOneTemplate =>
        /\ Len(cards[1]) = Cardinality(CardOrds)
        /\ NoteMarkerOrds # {} => CardOrds = NoteMarkerOrds
        /\ NoteMarkerOrds = {} => CardOrds = {0}

C6_Witness ==
    /\ ClozeOneTemplate
    /\ note[1].val.fields =
         <<Marker(1) \o Marker(2), Marker(3) \o Marker(4)>>
    /\ CardOrds = {0, 1, 2, 3}
    /\ Len(cards[1]) = 4

(* C7: Model::new and Model::new_with_options with every option None give  *)
(* equal Models (FrontBack, empty css, default LaTeX pre/post, sort field   *)
(* index 0), and both serialize with mode flag 0.                          *)
C7_NewDefaults ==
    LET a == New(model.id, model.name, givenFields, givenTemplates, unsetOrd)
        b == NewWithOptions(model.id, model.name, givenFields, givenTemplates,
                            None, None, None, None, None, unsetOrd)
    IN /\ a = b
       /\ b.model_type = FrontBack
       /\ b.css = ""
       /\ b.latex_pre = DEFAULT_LATEX_PRE
       /\ b.latex_post = DEFAULT_LATEX_POST
       /\ b.sort_field_index = 0
       /\ \A timestamp \in Timestamps, deck_id \in DeckIds :
            /\ ModelDbEntryOf(Renumbered(a), timestamp, deck_id).val.model_db_entry_type = 0
            /\ ModelDbEntryOf(Renumbered(b), timestamp, deck_id).val.model_db_entry_type = 0

C7_Witness ==
    /\ Serialized
    /\ model = Renumbered(New(model.id, model.name, givenFields, givenTemplates, unsetOrd))
    /\ Len(givenFields) = 2
    /\ Len(givenTemplates) = 1
    /\ Entry.model_db_entry_type = 0

RECURSIVE ParseNat(_, _)
ParseNat(s, acc) ==
    IF s = <<>> THEN acc ELSE ParseNat(Tail(s), acc * 10 + DigitValue(Head(s)))

ParseI64(s) == IF Head(s) = "-" THEN -ParseNat(Tail(s), 0) ELSE ParseNat(s, 0)

(* C8: the returned entry projects the Model: its id reads back as the     *)
(* Model's id, name, css, LaTeX pre/post and sort field index are the      *)
(* Model's, the mode flag is 0 exactly for FrontBack and 1 exactly for     *)
(* Cloze, the requirements are req() and the deck id is the argument.      *)
C8_EntryProjection ==
    Serialized =>
        /\ ret[1].ok
        /\ ParseI64(Entry.id) = model.id
        /\ Entry.name = model.name
        /\ Entry.css = model.css
        /\ Entry.latex_pre = model.latex_pre
        /\ Entry.latex_post = model.latex_post
        /\ Entry.sortf = model.sort_field_index
        /\ (Entry.model_db_entry_type = 0 <=> model.model_type = FrontBack)
        /\ (Entry.model_db_entry_type = 1 <=> model.model_type = Cloze)
        /\ Ok(Entry.req) = Req(model)
        /\ Entry.did = call[1].deck_id

C8_Witness ==
    /\ Serialized
    /\ model.id = -10
    /\ Entry.id = <<"-", "1", "0">>
    /\ model.model_type = Cloze
    /\ Entry.model_db_entry_type = 1
    /\ Entry.sortf = 1
    /\ Entry.css # ""
    /\ Entry.latex_pre = ""
    /\ Entry.did = 2

(* C9: to_model_db_entry changes nothing of the Model but the ords: id,    *)
(* name, css, type, LaTeX pre/post, sort field index, the number and order *)
(* of fields and templates and their names and formats stay.               *)
C9_SerializeFrame ==
    [][ToModelDbEntry =>
          /\ model'.id = model.id
          /\ model'.name = model.name
          /\ model'.css = model.css
          /\ model'.model_type = model.model_type
          /\ model'.latex_pre = model.latex_pre
          /\ model'.latex_post = model.latex_post
          /\ model'.sort_field_index = model.sort_field_index
          /\ Len(model'.fields) = Len(model.fields)
          /\ \A i \in 1..Len(model.fields) :
               model'.fields[i].name = model.fields[i].name
          /\ Len(model'.templates) = Len(model.templates)
          /\ \A i \in 1..Len(model.templates) :
               /\ model'.templates[i].name = model.templates[i].name
               /\ model'.templates[i].qfmt = model.templates[i].qfmt
               /\ model'.templates[i].afmt = model.templates[i].afmt]_vars

C9_Witness ==
    /\ Serialized
    /\ model.sort_field_index = 1
    /\ model.css # ""
    /\ model.model_type = Cloze
    /\ Len(model.fields) = 2
    /\ model.fields[1].name # model.fields[2].name
    /\ Len(model.templates) = 2
    /\ model.templates[1].name # model.templates[2].name

(* A FrontBack Model with T templates and F fields, all blank. *)
Blank(T, F) ==
    New(0, "", [j \in 1..F |-> [name |-> ""]],
        [i \in 1..T |-> [name |-> "", qfmt |-> "", afmt |-> ""]], 0)

(* C10: req() never fails and depends only on the numbers of templates and *)
(* fields: a Cloze Model gets what a FrontBack Model of the same counts    *)
(* gets, whatever the names, formats and ords.                             *)
C10_ReqCountsOnly ==
    /\ Req(model).ok
    /\ Req(model) = Req(Blank(Len(model.templates), Len(model.fields)))
    /\ Req(model) = Req([model EXCEPT !.model_type = FrontBack])
    /\ Serialized =>
         Ok(Entry.req) = Req(Blank(Len(model.templates), Len(model.fields)))

C10_Witness ==
    /\ Serialized
    /\ model.model_type = Cloze
    /\ Len(Entry.req) = 2
    /\ Len(Entry.req[1].fields) = 1
    /\ model.fields[1].ord = 0
    /\ unsetOrd = 7

====
